---- MODULE Spec2Model ----
(***************************************************************************)
(* Model of the two utility scripts of tidal-dl-ng-For-DJ:                 *)
(*   scripts/check_agents_compliance.py   (class AGENTSCompliance + main)  *)
(*   scripts/verify_playlist_integration.py (check_integration + main)     *)
(* File contents are sequences of one-character strings, so that the       *)
(* regular expressions and substring tests of the scripts are computed on  *)
(* characters, as Python's re and str do.                                  *)
(***************************************************************************)
EXTENDS Integers, Sequences, FiniteSets, TLC

VARIABLES
    script,         \* which script this process runs
    pc,             \* position of the top-level script
    run,            \* number of the current run of the script
    history,        \* outcome of each finished earlier run
    files,          \* the compliance checker's files_to_check, as found on disk
    tokens,         \* the lexemes the content under a single check was built from
    idx,            \* position of the for-loop over files_to_check
    issues,         \* AGENTSCompliance.issues
    passed,         \* AGENTSCompliance.passed
    modules,        \* what importing each probed module does
    mainwindow,     \* what issubclass / hasattr find on MainWindow
    srcfiles,       \* the three files the verifier greps, as found on disk
    next_check,     \* the next check of check_integration
    checks_passed,  \* check_integration's counter
    checks_failed,  \* check_integration's counter
    printed,        \* the lines written to standard output that carry an outcome
    exit_code       \* the process's exit code, -1 while it runs

vars == <<script, pc, run, history, files, tokens, idx, issues, passed, modules,
          mainwindow, srcfiles, next_check, checks_passed, checks_failed,
          printed, exit_code>>

-----------------------------------------------------------------------------
(* Characters and the literals of the two scripts.                          *)

Lower == {"a", "b", "c", "d", "e", "f", "g", "h", "i", "j", "k", "l", "m", "n", "o", "p", "q", "r", "s", "t", "u", "v", "w", "x", "y", "z"}
Upper == {"A", "B", "C", "D", "E", "F", "G", "H", "I", "J", "K", "L", "M", "N", "O", "P", "Q", "R", "S", "T", "U", "V", "W", "X", "Y", "Z"}
Digit == {"0", "1", "2", "3", "4", "5", "6", "7", "8", "9"}
WordChars == Lower \cup Upper \cup Digit \cup {"_"}
Whitespace == {" ", "\t", "\n", "\r"}

s_from_typing_import == <<"f", "r", "o", "m", " ", "t", "y", "p", "i", "n", "g", " ", "i", "m", "p", "o", "r", "t">>
s_List == <<"L", "i", "s", "t">>
s_Dict == <<"D", "i", "c", "t">>
s_Set == <<"S", "e", "t">>
s_Tuple == <<"T", "u", "p", "l", "e">>
s_Optional == <<"O", "p", "t", "i", "o", "n", "a", "l">>
s_Union == <<"U", "n", "i", "o", "n">>
s_pipe_None == <<"|", " ", "N", "o", "n", "e">>
s_pipe_space == <<"|", " ">>
s_except == <<"e", "x", "c", "e", "p", "t">>
s_class == <<"c", "l", "a", "s", "s">>
s_def == <<"d", "e", "f">>
s_triple_quote == <<"\"", "\"", "\"">>
s_import_ == <<"i", "m", "p", "o", "r", "t", " ">>
s_from_ == <<"f", "r", "o", "m", " ">>
s_import_threading == <<"i", "m", "p", "o", "r", "t", " ", "t", "h", "r", "e", "a", "d", "i", "n", "g">>
s_import_concurrent == <<"i", "m", "p", "o", "r", "t", " ", "c", "o", "n", "c", "u", "r", "r", "e", "n", "t">>
s_PySide6 == <<"P", "y", "S", "i", "d", "e", "6">>
s_requests == <<"r", "e", "q", "u", "e", "s", "t", "s">>
s_from_tidal_dl_ng == <<"f", "r", "o", "m", " ", "t", "i", "d", "a", "l", "_", "d", "l", "_", "n", "g">>
s_threading_RLock == <<"t", "h", "r", "e", "a", "d", "i", "n", "g", ".", "R", "L", "o", "c", "k">>
s_threading_Lock == <<"t", "h", "r", "e", "a", "d", "i", "n", "g", ".", "L", "o", "c", "k">>
s_with_self_lock == <<"w", "i", "t", "h", " ", "s", "e", "l", "f", ".", "_", "l", "o", "c", "k">>
s_ThreadPoolExecutor == <<"T", "h", "r", "e", "a", "d", "P", "o", "o", "l", "E", "x", "e", "c", "u", "t", "o", "r">>
s_logger_gui == <<"l", "o", "g", "g", "e", "r", "_", "g", "u", "i">>
s_logger == <<"l", "o", "g", "g", "e", "r">>
s_underscore == <<"_">>
s_test_ == <<"t", "e", "s", "t", "_">>
s_property == <<"p", "r", "o", "p", "e", "r", "t", "y">>
s_child_playlists == <<"c", "h", "i", "l", "d", "_", "p", "l", "a", "y", "l", "i", "s", "t", "s">>
s_init_playlist_membership_manager == <<"i", "n", "i", "t", "_", "p", "l", "a", "y", "l", "i", "s", "t", "_", "m", "e", "m", "b", "e", "r", "s", "h", "i", "p", "_", "m", "a", "n", "a", "g", "e", "r">>
s_PlaylistCellState == <<"P", "l", "a", "y", "l", "i", "s", "t", "C", "e", "l", "l", "S", "t", "a", "t", "e">>

-----------------------------------------------------------------------------
(* str and re primitives, on sequences of characters.                       *)

\* s[i:].startswith(p), with i counted from 1
StartsWithAt(s, i, p) ==
    /\ i >= 1
    /\ i + Len(p) - 1 <= Len(s)
    /\ \A k \in 1..Len(p) : s[i + k - 1] = p[k]

\* p in s
Contains(s, p) == \E i \in 1..(Len(s) - Len(p) + 1) : StartsWithAt(s, i, p)

\* the end of a greedy run [C]* that starts at i: the first position >= i
\* holding no character of C
SkipIn(s, i, C) ==
    IF i > Len(s) THEN i
    ELSE CHOOSE j \in i..(Len(s) + 1) :
             /\ j > Len(s) \/ s[j] \notin C
             /\ \A k \in i..(j - 1) : s[k] \in C

\* the end of a greedy run [^C]* that starts at i
SkipNotIn(s, i, C) ==
    IF i > Len(s) THEN i
    ELSE CHOOSE j \in i..(Len(s) + 1) :
             /\ j > Len(s) \/ s[j] \in C
             /\ \A k \in i..(j - 1) : s[k] \notin C

\* s.find(p, i): the first position >= i where p starts, 0 when there is none
Find(s, p, i) ==
    IF \E j \in i..Len(s) : StartsWithAt(s, j, p)
    THEN CHOOSE j \in i..Len(s) :
             /\ StartsWithAt(s, j, p)
             /\ \A k \in i..(j - 1) : ~StartsWithAt(s, k, p)
    ELSE 0

IsWordAt(s, k) == k >= 1 /\ k <= Len(s) /\ s[k] \in WordChars

\* \b between s[j-1] and s[j]
WordBoundary(s, j) == IsWordAt(s, j - 1) # IsWordAt(s, j)

\* ^ under re.MULTILINE
AtLineStart(s, i) == i = 1 \/ (i >= 2 /\ i <= Len(s) + 1 /\ s[i - 1] = "\n")

\* s.split("\n")
RECURSIVE SplitFrom(_, _)
SplitFrom(s, i) ==
    LET j == SkipNotIn(s, i, {"\n"})
    IN  IF j > Len(s) THEN <<SubSeq(s, i, Len(s))>>
        ELSE <<SubSeq(s, i, j - 1)>> \o SplitFrom(s, j + 1)

split_lines(s) == SplitFrom(s, 1)

\* s.strip()
LastNonSpace(s, j) ==
    IF \E k \in 1..j : s[k] \notin Whitespace
    THEN CHOOSE k \in 1..j : s[k] \notin Whitespace /\ \A m \in (k + 1)..j : s[m] \in Whitespace
    ELSE 0

strip(s) == SubSeq(s, SkipIn(s, 1, Whitespace), LastNonSpace(s, Len(s)))

\* the concatenation of a sequence of character sequences
RECURSIVE Flatten(_)
Flatten(ss) == IF ss = <<>> THEN <<>> ELSE Head(ss) \o Flatten(Tail(ss))

\* n copies of character c
Repeat(c, n) == [k \in 1..n |-> c]

-----------------------------------------------------------------------------
(* class AGENTSCompliance.  self is the record [issues, passed]; a method   *)
(* that appends to the lists is an operator from self to the new self.      *)
(* An issue is (file, message, severity); a pass is a message naming the    *)
(* file.  Messages are named by their fixed text.                           *)

MaxLineLength == 120
DocstringThreshold == 5

\* as AGENTSCompliance_init, but with the two lists as class attributes, which
\* every instance shares
AGENTSCompliance_init_shared == [issues |-> issues, passed |-> passed]

AGENTSCompliance_init == [issues |-> <<>>, passed |-> <<>>]

\* an f-string: its fixed text and the value it interpolates besides the file
fmt(text, arg) == <<text, arg>>

issues_append(self, filepath, msg, severity) ==
    [self EXCEPT !.issues = Append(@, [file |-> filepath, msg |-> msg, sev |-> severity])]

passed_append(self, filepath, msg) ==
    [self EXCEPT !.passed = Append(@, [file |-> filepath, msg |-> msg])]

\* re.search(r"from typing import.*\b<name>\b", content)
re_search_deprecated(content, name) ==
    \E i \in 1..Len(content) :
        /\ StartsWithAt(content, i, s_from_typing_import)
        /\ \E j \in (i + Len(s_from_typing_import))..Len(content) :
              /\ \A k \in (i + Len(s_from_typing_import))..(j - 1) : content[k] # "\n"
              /\ WordBoundary(content, j)
              /\ StartsWithAt(content, j, name)
              /\ WordBoundary(content, j + Len(name))

deprecated == << [pattern |-> s_List,     name |-> "List"],
                 [pattern |-> s_Dict,     name |-> "Dict"],
                 [pattern |-> s_Set,      name |-> "Set"],
                 [pattern |-> s_Tuple,    name |-> "Tuple"],
                 [pattern |-> s_Optional, name |-> "Optional"],
                 [pattern |-> s_Union,    name |-> "Union"] >>

\* the for loop of _check_no_deprecated_typing from entry k on
RECURSIVE deprecated_loop(_, _, _, _)
deprecated_loop(self, filepath, content, k) ==
    IF k > Len(deprecated) THEN passed_append(self, filepath, fmt("No deprecated typing imports", ""))
    ELSE IF re_search_deprecated(content, deprecated[k].pattern)
         THEN issues_append(self, filepath, fmt("Deprecated", deprecated[k].name), 2)
         ELSE deprecated_loop(self, filepath, content, k + 1)

\* as deprecated_loop, but without the return after the first match
RECURSIVE deprecated_loop_no_return(_, _, _, _, _)
deprecated_loop_no_return(self, filepath, content, k, found) ==
    IF k > Len(deprecated)
    THEN IF found THEN self
         ELSE passed_append(self, filepath, fmt("No deprecated typing imports", ""))
    ELSE IF re_search_deprecated(content, deprecated[k].pattern)
         THEN deprecated_loop_no_return(
                  issues_append(self, filepath, fmt("Deprecated", deprecated[k].name), 2),
                  filepath, content, k + 1, TRUE)
         ELSE deprecated_loop_no_return(self, filepath, content, k + 1, found)

_check_no_deprecated_typing_no_return(self, filepath, content) ==
    deprecated_loop_no_return(self, filepath, content, 1, FALSE)

_check_no_deprecated_typing(self, filepath, content) ==
    deprecated_loop(self, filepath, content, 1)

_check_union_types(self, filepath, content) ==
    IF Contains(content, s_pipe_None) \/ Contains(content, s_pipe_space)
    THEN passed_append(self, filepath, fmt("Uses modern union types", ""))
    ELSE self

\* re.match of r"except\s*:" at position i
re_bare_except_at(content, i) ==
    /\ StartsWithAt(content, i, s_except)
    /\ LET j == SkipIn(content, i + Len(s_except), Whitespace)
       IN  j <= Len(content) /\ content[j] = ":"

re_search_bare_except(content) == \E i \in 1..Len(content) : re_bare_except_at(content, i)

\* as _check_no_bare_except, but with one issue for every match (re.findall)
_check_no_bare_except_each(self, filepath, content) ==
    LET n == Cardinality({ i \in 1..Len(content) : re_bare_except_at(content, i) })
    IN  IF n = 0 THEN passed_append(self, filepath, fmt("No bare except clauses", ""))
        ELSE [self EXCEPT !.issues = @ \o [k \in 1..n |->
                  [file |-> filepath, msg |-> fmt("Bare except found", ""), sev |-> 2]]]

_check_no_bare_except(self, filepath, content) ==
    IF re_search_bare_except(content)
    THEN issues_append(self, filepath, fmt("Bare except found", ""), 2)
    ELSE passed_append(self, filepath, fmt("No bare except clauses", ""))

\* dec.id == "property" if isinstance(dec, ast.Name) else False
is_property(dec) == IF dec.is_Name THEN dec.id = s_property ELSE FALSE

\* the nodes the walk of _check_type_hints appends to untyped_functions
untyped(node) ==
    /\ ~StartsWithAt(node.name, 1, s_underscore)
    /\ ~node.returns /\ ~(\E d \in 1..Len(node.decorator_list) : is_property(node.decorator_list[d]))
    /\ ~StartsWithAt(node.name, 1, s_test_)

\* ast.parse(content): the parser's answer for this file: the function
\* definitions that ast.walk finds in the tree, a SyntaxError, or, for a source
\* nested too deeply for the parser, a RecursionError or MemoryError
ast_parse(file) == file.ast

_check_type_hints(self, filepath, file) ==
    LET tree == ast_parse(file)
    IN  IF tree.raises = "SyntaxError"
        THEN issues_append(self, filepath, fmt("Syntax error", ""), 2)
        ELSE LET untyped_functions == SelectSeq(tree.body, untyped)
             IN  IF untyped_functions # <<>>
                 THEN passed_append(self, filepath, fmt("Most functions typed", ""))
                 ELSE passed_append(self, filepath, fmt("All functions have type hints", ""))

\* r"^class\s+([A-Z][a-zA-Z0-9]*)\s*[:(]" at position i, re.MULTILINE
re_class_at(content, i) ==
    /\ AtLineStart(content, i)
    /\ StartsWithAt(content, i, s_class)
    /\ LET a == SkipIn(content, i + Len(s_class), Whitespace)
       IN  /\ a > i + Len(s_class)
           /\ a <= Len(content)
           /\ content[a] \in Upper
           /\ LET b == SkipIn(content, a + 1, Lower \cup Upper \cup Digit)
                  c == SkipIn(content, b, Whitespace)
              IN  c <= Len(content) /\ content[c] \in {":", "("}

\* r"^\s*def\s+([a-z_][a-z0-9_]*)\s*\(" at position i, re.MULTILINE
re_def_at(content, i) ==
    /\ AtLineStart(content, i)
    /\ LET a == SkipIn(content, i, Whitespace)
       IN  /\ StartsWithAt(content, a, s_def)
           /\ LET b == SkipIn(content, a + Len(s_def), Whitespace)
              IN  /\ b > a + Len(s_def)
                  /\ b <= Len(content)
                  /\ content[b] \in Lower \cup {"_"}
                  /\ LET c == SkipIn(content, b + 1, Lower \cup Digit \cup {"_"})
                         d == SkipIn(content, c, Whitespace)
                     IN  d <= Len(content) /\ content[d] = "("

_check_naming(self, filepath, content) ==
    LET class_matches == \E i \in 1..Len(content) : re_class_at(content, i)
        func_matches == \E i \in 1..Len(content) : re_def_at(content, i)
        self1 == IF class_matches THEN passed_append(self, filepath, fmt("Classes in PascalCase", ""))
                 ELSE self
    IN  IF func_matches THEN passed_append(self1, filepath, fmt("Functions in snake_case", ""))
        ELSE self1

\* len(re.findall(r'"""[^"]*"""', content)) for the scan from position i on:
\* a match can only start where """ starts
RECURSIVE findall_docstrings(_, _)
findall_docstrings(content, i) ==
    LET a == Find(content, s_triple_quote, i)
    IN  IF a = 0 THEN 0
        ELSE LET j == SkipNotIn(content, a + Len(s_triple_quote), {"\""})
             IN  IF StartsWithAt(content, j, s_triple_quote)
                 THEN 1 + findall_docstrings(content, j + Len(s_triple_quote))
                 ELSE findall_docstrings(content, a + 1)

\* as _check_docstrings, but silent about a file with few docstrings
_check_docstrings_silent(self, filepath, content) ==
    IF findall_docstrings(content, 1) > DocstringThreshold
    THEN passed_append(self, filepath, fmt("Comprehensive docstrings", ""))
    ELSE self

_check_docstrings(self, filepath, content) ==
    LET doc_count == findall_docstrings(content, 1)
    IN  IF doc_count > DocstringThreshold
        THEN passed_append(self, filepath, fmt("Comprehensive docstrings", ""))
        ELSE issues_append(self, filepath, fmt("Few docstrings found", ""), 1)

_check_line_length(self, filepath, content) ==
    LET lines == split_lines(content)
        long_lines == { i \in 1..Len(lines) :
                          /\ Len(lines[i]) > MaxLineLength
                          /\ ~StartsWithAt(strip(lines[i]), 1, <<"#">>) }
    IN  IF long_lines # {}
        THEN issues_append(self, filepath, fmt("lines exceed 120 characters", ""), 1)
        ELSE passed_append(self, filepath, fmt("All lines <= 120 characters", ""))

\* the loop of _check_isort_order that gathers import_lines, from line k on
RECURSIVE import_section(_, _, _, _)
import_section(lines, k, in_imports, import_lines) ==
    IF k > Len(lines) THEN import_lines
    ELSE IF StartsWithAt(lines[k], 1, s_import_) \/ StartsWithAt(lines[k], 1, s_from_)
         THEN import_section(lines, k + 1, TRUE, Append(import_lines, lines[k]))
         ELSE IF in_imports /\ lines[k] # <<>> /\ lines[k][1] \notin Whitespace
              THEN import_lines
              ELSE import_section(lines, k + 1, in_imports, import_lines)

is_stdlib(line) == Contains(line, s_import_threading) \/ Contains(line, s_import_concurrent)
is_thirdparty(line) == Contains(line, s_PySide6) \/ Contains(line, s_requests)
is_firstparty(line) == Contains(line, s_from_tidal_dl_ng)

\* next((i for i, line in enumerate(import_lines) if <line is in hits>), -1),
\* hits being the positions (from 1) of the lines the generator accepts
first_index(hits) ==
    IF hits = {} THEN -1
    ELSE (CHOOSE i \in hits : \A k \in hits : i <= k) - 1

_check_isort_order(self, filepath, content) ==
    LET import_lines == import_section(split_lines(content), 1, FALSE, <<>>)
        has_stdlib == \E i \in 1..Len(import_lines) : is_stdlib(import_lines[i])
        has_thirdparty == \E i \in 1..Len(import_lines) : is_thirdparty(import_lines[i])
        has_firstparty == \E i \in 1..Len(import_lines) : is_firstparty(import_lines[i])
        stdlib_idx == first_index({i \in 1..Len(import_lines) : is_stdlib(import_lines[i])})
        thirdparty_idx == first_index({i \in 1..Len(import_lines) : is_thirdparty(import_lines[i])})
    IN  IF import_lines = <<>> THEN self
        ELSE IF has_stdlib /\ has_thirdparty /\ has_firstparty
             THEN IF stdlib_idx < thirdparty_idx
                  THEN passed_append(self, filepath, fmt("Imports properly ordered (isort)", ""))
                  ELSE issues_append(self, filepath, fmt("Import order may not match isort", ""), 1)
             ELSE passed_append(self, filepath, fmt("Import order OK", ""))

_check_thread_safety(self, filepath, content) ==
    LET self1 == IF Contains(content, s_threading_RLock) \/ Contains(content, s_threading_Lock)
                 THEN passed_append(self, filepath, fmt("Uses threading.Lock for thread-safety", ""))
                 ELSE self
        self2 == IF Contains(content, s_with_self_lock)
                 THEN passed_append(self1, filepath, fmt("Uses context managers for locks", ""))
                 ELSE self1
    IN  IF Contains(content, s_ThreadPoolExecutor)
        THEN passed_append(self2, filepath, fmt("Uses ThreadPoolExecutor for concurrency", ""))
        ELSE self2

_check_logging(self, filepath, content) ==
    IF Contains(content, s_logger_gui) \/ Contains(content, s_logger)
    THEN passed_append(self, filepath, fmt("Uses project logger", ""))
    ELSE self

\* whether ast.parse raises what _check_type_hints does not catch
parse_propagates(file) == ast_parse(file).raises \notin {"none", "SyntaxError"}

\* checks 1 to 3 of check_file, all that has run when _check_type_hints raises
check_file_before_parse(self, filepath, file) ==
    LET content == file.text
        c1 == _check_no_deprecated_typing(self, filepath, content)
        c2 == _check_union_types(c1, filepath, content)
    IN  _check_no_bare_except(c2, filepath, content)

\* check_file after content = filepath.read_text(...) has returned file.text
check_file(self, filepath, file) ==
    LET content == file.text
        c1 == _check_no_deprecated_typing(self, filepath, content)
        c2 == _check_union_types(c1, filepath, content)
        c3 == _check_no_bare_except(c2, filepath, content)
        c4 == _check_type_hints(c3, filepath, file)
        c5 == _check_naming(c4, filepath, content)
        c6 == _check_docstrings(c5, filepath, content)
        c7 == _check_line_length(c6, filepath, content)
        c8 == _check_isort_order(c7, filepath, content)
        c9 == _check_thread_safety(c8, filepath, content)
    IN  _check_logging(c9, filepath, content)

errors_of(self) == SelectSeq(self.issues, LAMBDA i : i.sev = 2)
warnings_of(self) == SelectSeq(self.issues, LAMBDA i : i.sev = 1)

\* the summary line report() prints
report_summary(self) ==
    IF self.issues # <<>>
    THEN [line |-> "summary", passed |-> Len(self.passed),
          warnings |-> Len(warnings_of(self)), errors |-> Len(errors_of(self))]
    ELSE [line |-> "summary", passed |-> Len(self.passed), warnings |-> 0, errors |-> 0]

\* as report, but any issue, a warning too, fails the run
report_any_issue(self) == IF Len(self.issues) = 0 THEN 0 ELSE 1

\* the value report() returns
report(self) == IF Len(errors_of(self)) = 0 THEN 0 ELSE 1

-----------------------------------------------------------------------------
(* What the compliance checker finds on disk.  A file is missing, exists    *)
(* but cannot be read as UTF-8 text, or has a text and the parser's answer   *)
(* for that text.                                                           *)

files_to_check == <<"tidal_dl_ng/gui/playlist_membership.py",
                    "tidal_dl_ng/ui/dialog_playlist_manager.py",
                    "tests/test_playlist_manager.py">>

text_rich ==
    Flatten(<<
        <<"\"", "\"", "\"", "a", "\"", "\"", "\"", "\n">>,
        <<"\"", "\"", "\"", "a", "\"", "\"", "\"", "\n">>,
        <<"\"", "\"", "\"", "a", "\"", "\"", "\"", "\n">>,
        <<"\"", "\"", "\"", "a", "\"", "\"", "\"", "\n">>,
        <<"\"", "\"", "\"", "a", "\"", "\"", "\"", "\n">>,
        <<"\"", "\"", "\"", "a", "\"", "\"", "\"", "\n">>,
        <<"i", "m", "p", "o", "r", "t", " ", "t", "h", "r", "e", "a", "d", "i", "n", "g", "\n">>,
        <<"f", "r", "o", "m", " ", "P", "y", "S", "i", "d", "e", "6", " ", "i", "m", "p", "o", "r", "t", " ", "x", "\n">>,
        <<"f", "r", "o", "m", " ", "t", "i", "d", "a", "l", "_", "d", "l", "_", "n", "g", " ", "i", "m", "p", "o", "r", "t", " ", "l", "o", "g", "g", "e", "r", "\n">>,
        <<"c", "l", "a", "s", "s", " ", "F", "o", "o", ":", "\n">>,
        <<" ", "d", "e", "f", " ", "f", "o", "o", "(", "x", ":", " ", "i", "n", "t", " ", "|", " ", "N", "o", "n", "e", ")", ":", "\n">>,
        <<" ", " ", "w", "i", "t", "h", " ", "s", "e", "l", "f", ".", "_", "l", "o", "c", "k", ":", "\n">>,
        <<" ", " ", " ", "t", "h", "r", "e", "a", "d", "i", "n", "g", ".", "L", "o", "c", "k", "\n">>,
        <<" ", " ", " ", "T", "h", "r", "e", "a", "d", "P", "o", "o", "l", "E", "x", "e", "c", "u", "t", "o", "r", "\n">>
    >>)

text_typing ==
    Flatten(<<
        <<"f", "r", "o", "m", " ", "t", "y", "p", "i", "n", "g", " ", "i", "m", "p", "o", "r", "t", " ", "L", "i", "s", "t", ",", " ", "O", "p", "t", "i", "o", "n", "a", "l", "\n">>,
        <<"x", " ", "=", " ", "1", "\n">>
    >>)

text_bare_except ==
    Flatten(<<
        <<"e", "x", "c", "e", "p", "t", ":">>
    >>)

text_isort ==
    Flatten(<<
        <<"i", "m", "p", "o", "r", "t", " ", "r", "e", "q", "u", "e", "s", "t", "s", "\n">>,
        <<"i", "m", "p", "o", "r", "t", " ", "t", "h", "r", "e", "a", "d", "i", "n", "g", "\n">>,
        <<"f", "r", "o", "m", " ", "t", "i", "d", "a", "l", "_", "d", "l", "_", "n", "g", " ", "i", "m", "p", "o", "r", "t", " ", "x", "\n">>
    >>)

text_quoted_docstrings ==
    Flatten(<<
        <<"\"", "\"", "\"", "a", "\"", "\"", "\"", "\n">>,
        <<"\"", "\"", "\"", "a", "\"", "\"", "\"", "\n">>,
        <<"\"", "\"", "\"", "a", "\"", "\"", "\"", "\n">>,
        <<"\"", "\"", "\"", "a", "\"", "\"", "\"", "\n">>,
        <<"\"", "\"", "\"", "a", "\"", "\"", "\"", "\n">>,
        <<"\"", "\"", "\"", "a", " ", "\"", "b", "\"", " ", "c", "\"", "\"", "\"", "\n">>
    >>)

text_long_line == Repeat("a", MaxLineLength + 1) \o <<"\n">> \o <<"#">> \o Repeat("a", MaxLineLength + 1)

\* stands for a sum of so many terms that the parser's stack overflows
text_deep == <<"x", " ", "=", " ", "1">> \o Flatten([k \in 1..20 |-> <<" ", "+", " ", "1">>])

FunctionDef(name, returns, decorator_list) ==
    [name |-> name, returns |-> returns, decorator_list |-> decorator_list]

Parsed(body) == [ok |-> TRUE, body |-> body, raises |-> "none"]
SyntaxError == [ok |-> FALSE, body |-> <<>>, raises |-> "SyntaxError"]
\* the parser gives up on a valid but too deeply nested source
RecursionError == [ok |-> FALSE, body |-> <<>>, raises |-> "RecursionError"]

TextFile(text, ast) == [state |-> "ok", text |-> text, ast |-> ast]
Missing == [state |-> "missing", text |-> <<>>, ast |-> Parsed(<<>>)]
Unreadable == [state |-> "unreadable", text |-> <<>>, ast |-> Parsed(<<>>)]

SampleFiles ==
    { TextFile(<<>>, Parsed(<<>>)),
      TextFile(text_rich, Parsed(<< FunctionDef(<<"f", "o", "o">>, FALSE, <<>>) >>)),
      TextFile(text_typing, Parsed(<<>>)),
      TextFile(text_bare_except, SyntaxError),
      TextFile(text_isort, Parsed(<<>>)),
      TextFile(text_quoted_docstrings, Parsed(<<>>)),
      TextFile(text_long_line, Parsed(<<>>)),
      TextFile(text_deep, RecursionError) }

DiskStates == {Missing, Unreadable} \cup SampleFiles

-----------------------------------------------------------------------------
(* scripts/verify_playlist_integration.py.  A check function returns the    *)
(* pair (passed, failed) and prints one line, or lets an exception through. *)

mixin_module == "tidal_dl_ng.gui.playlist_membership_mixin"
membership_module == "tidal_dl_ng.gui.playlist_membership"
dialog_module == "tidal_dl_ng.ui.dialog_playlist_manager"
main_window_module == "tidal_dl_ng.gui.main_window"

ModuleNames == {mixin_module, membership_module, dialog_module, main_window_module}

\* importing a module succeeds, raises ImportError, or raises another
\* Exception (a SyntaxError or NameError in the module, say)
ImportOutcomes == {"ok", "ImportError", "Exception"}

Returned(check_num, p, f) ==
    [raised |-> FALSE, passed |-> p, failed |-> f,
     out |-> << [check |-> check_num, ok |-> (p = 1)] >>]

Raised == [raised |-> TRUE, passed |-> 0, failed |-> 0, out |-> <<>>]

_check_import(mods, module_path, component_name, check_num) ==
    CASE mods[module_path] = "ok" -> Returned(check_num, 1, 0)
      [] mods[module_path] = "ImportError" -> Returned(check_num, 0, 1)
      [] OTHER -> Raised

checks == << [module_path |-> mixin_module, component_name |-> "PlaylistMembershipMixin", check_num |-> 1],
             [module_path |-> membership_module, component_name |-> "PlaylistContextLoader", check_num |-> 2],
             [module_path |-> membership_module, component_name |-> "ThreadSafePlaylistCache", check_num |-> 3],
             [module_path |-> membership_module, component_name |-> "PlaylistColumnDelegate", check_num |-> 4],
             [module_path |-> dialog_module, component_name |-> "PlaylistManagerDialog", check_num |-> 5] >>

\* the for loop of _run_all_import_checks from entry k on, total being
\* (total_passed, total_failed) and the lines printed so far
RECURSIVE import_loop(_, _, _)
import_loop(mods, k, total) ==
    IF k > Len(checks) THEN total
    ELSE LET r == _check_import(mods, checks[k].module_path, checks[k].component_name,
                                checks[k].check_num)
         IN  IF r.raised THEN [total EXCEPT !.raised = TRUE]
             ELSE import_loop(mods, k + 1,
                              [total EXCEPT !.passed = @ + r.passed,
                                            !.failed = @ + r.failed,
                                            !.out = @ \o r.out])

\* as import_loop, but leaving the loop at the first failed import
RECURSIVE import_loop_break(_, _, _)
import_loop_break(mods, k, total) ==
    IF k > Len(checks) \/ total.failed > 0 THEN total
    ELSE LET r == _check_import(mods, checks[k].module_path, checks[k].component_name,
                                checks[k].check_num)
         IN  IF r.raised THEN [total EXCEPT !.raised = TRUE]
             ELSE import_loop_break(mods, k + 1,
                                    [total EXCEPT !.passed = @ + r.passed,
                                                  !.failed = @ + r.failed,
                                                  !.out = @ \o r.out])

_run_all_import_checks_break(mods) ==
    import_loop_break(mods, 1, [raised |-> FALSE, passed |-> 0, failed |-> 0, out |-> <<>>])

_run_all_import_checks(mods) ==
    import_loop(mods, 1, [raised |-> FALSE, passed |-> 0, failed |-> 0, out |-> <<>>])

_check_mainwindow_inheritance(mods, mw) ==
    IF mods[main_window_module] # "ok" \/ mods[mixin_module] # "ok"
    THEN Returned(6, 0, 1)
    ELSE IF mw.is_subclass THEN Returned(6, 1, 0) ELSE Returned(6, 0, 1)

_check_method_exists(mods, mw) ==
    IF mods[main_window_module] # "ok"
    THEN Returned(7, 0, 1)
    ELSE IF mw.has_method THEN Returned(7, 1, 0) ELSE Returned(7, 0, 1)

_check_file_content(file, search_str, check_num) ==
    IF file.state # "ok" THEN Returned(check_num, 0, 1)
    ELSE IF Contains(file.text, search_str) THEN Returned(check_num, 1, 0)
         ELSE Returned(check_num, 0, 1)

\* the three _check_file_content calls of check_integration
file_checks ==
    << [path |-> "tidal_dl_ng/gui/trees_results.py", search_str |-> s_child_playlists,
        check_num |-> 8],
       [path |-> "tidal_dl_ng/gui/tidal_session.py",
        search_str |-> s_init_playlist_membership_manager, check_num |-> 9],
       [path |-> "tidal_dl_ng/gui/playlist_membership_mixin.py",
        search_str |-> s_PlaylistCellState, check_num |-> 10] >>

\* the value check_integration returns
integration_result(failed) == IF failed = 0 THEN 0 ELSE 1

\* what the verifier's greps may find: no readable file, a file without the
\* string looked for, a file with it
GrepStates(k) ==
    { Unreadable,
      TextFile(<<"x", "\n">>, Parsed(<<>>)),
      TextFile(<<"x", " ">> \o file_checks[k].search_str \o <<"(", "\n">>, Parsed(<<>>)) }

-----------------------------------------------------------------------------
(* The two processes.  pc: "start", then "loop" (compliance) or "checks"    *)
(* (verifier), then "done" after exit(exit_code), or "crashed" when an      *)
(* exception reaches the top of the script (the interpreter exits with 1).  *)

NumRuns == 2

NoFiles == <<>>
NoModules == [m \in ModuleNames |-> "ok"]
NoMainWindow == [is_subclass |-> TRUE, has_method |-> TRUE]

InitCommon ==
    /\ pc = "start"
    /\ run = 1
    /\ history = <<>>
    /\ idx = 1
    /\ issues = <<>>
    /\ passed = <<>>
    /\ next_check = 1
    /\ checks_passed = 0
    /\ checks_failed = 0
    /\ printed = <<>>
    /\ exit_code = -1

InitCompliance ==
    /\ script = "compliance"
    /\ files \in [1..Len(files_to_check) -> DiskStates]
    /\ tokens = <<>>
    /\ modules = NoModules
    /\ mainwindow = NoMainWindow
    /\ srcfiles = NoFiles
    /\ InitCommon

InitVerifier ==
    /\ script = "verifier"
    /\ files = NoFiles
    /\ tokens = <<>>
    /\ modules \in [ModuleNames -> ImportOutcomes]
    /\ mainwindow \in [is_subclass : BOOLEAN, has_method : BOOLEAN]
    /\ srcfiles \in { <<a, b, c>> : a \in GrepStates(1), b \in GrepStates(2), c \in GrepStates(3) }
    /\ InitCommon

Init == InitCompliance \/ InitVerifier

env == <<script, files, tokens, modules, mainwindow, srcfiles>>
verifier_vars == <<next_check, checks_passed, checks_failed, printed>>
checker_vars == <<idx, issues, passed>>

\* an exception nobody caught: traceback, exit status 1
Crash ==
    /\ pc' = "crashed"
    /\ exit_code' = 1

\* checker = AGENTSCompliance()
Construct ==
    /\ script = "compliance" /\ pc = "start"
    /\ issues' = AGENTSCompliance_init.issues
    /\ passed' = AGENTSCompliance_init.passed
    /\ idx' = 1
    /\ pc' = "loop"
    /\ UNCHANGED <<env, run, history, verifier_vars, exit_code>>

\* as FileNotFound, but recording the missing file as an error
FileNotFound_as_error ==
    /\ script = "compliance" /\ pc = "loop"
    /\ idx <= Len(files_to_check)
    /\ files[idx].state = "missing"
    /\ issues' = Append(issues, [file |-> files_to_check[idx],
                                 msg |-> fmt("File not found", ""), sev |-> 2])
    /\ idx' = idx + 1
    /\ UNCHANGED <<env, pc, run, history, passed, verifier_vars, exit_code>>

\* for filepath in files_to_check: filepath.exists() is false
FileNotFound ==
    /\ script = "compliance" /\ pc = "loop"
    /\ idx <= Len(files_to_check)
    /\ files[idx].state = "missing"
    /\ idx' = idx + 1
    /\ UNCHANGED <<env, pc, run, history, issues, passed, verifier_vars, exit_code>>

\* for filepath in files_to_check: checker.check_file(filepath) returns
CheckFile ==
    /\ script = "compliance" /\ pc = "loop"
    /\ idx <= Len(files_to_check)
    /\ files[idx].state = "ok"
    /\ ~parse_propagates(files[idx])
    /\ LET self == check_file([issues |-> issues, passed |-> passed],
                              files_to_check[idx], files[idx])
       IN  /\ issues' = self.issues
           /\ passed' = self.passed
    /\ idx' = idx + 1
    /\ UNCHANGED <<env, pc, run, history, verifier_vars, exit_code>>

\* for filepath in files_to_check: ast.parse raises in _check_type_hints
\* something other than SyntaxError, which leaves check_file
ParseRaises ==
    /\ script = "compliance" /\ pc = "loop"
    /\ idx <= Len(files_to_check)
    /\ files[idx].state = "ok"
    /\ parse_propagates(files[idx])
    /\ LET self == check_file_before_parse([issues |-> issues, passed |-> passed],
                                           files_to_check[idx], files[idx])
       IN  /\ issues' = self.issues
           /\ passed' = self.passed
    /\ Crash
    /\ UNCHANGED <<env, run, history, idx, verifier_vars>>

\* for filepath in files_to_check: filepath.read_text raises in check_file
ReadTextRaises ==
    /\ script = "compliance" /\ pc = "loop"
    /\ idx <= Len(files_to_check)
    /\ files[idx].state = "unreadable"
    /\ Crash
    /\ UNCHANGED <<env, run, history, checker_vars, verifier_vars>>

\* exit_code = checker.report(); exit(exit_code)
Report ==
    /\ script = "compliance" /\ pc = "loop"
    /\ idx > Len(files_to_check)
    /\ exit_code' = report([issues |-> issues, passed |-> passed])
    /\ pc' = "done"
    /\ UNCHANGED <<env, run, history, checker_vars, verifier_vars>>

\* check_integration: checks_passed = 0; checks_failed = 0
Begin ==
    /\ script = "verifier" /\ pc = "start"
    /\ checks_passed' = 0
    /\ checks_failed' = 0
    /\ next_check' = 1
    /\ pc' = "checks"
    /\ UNCHANGED <<env, run, history, checker_vars, printed, exit_code>>

\* a check function returned r: add its pair to the counters
Count(r, following) ==
    /\ printed' = printed \o r.out
    /\ checks_passed' = checks_passed + r.passed
    /\ checks_failed' = checks_failed + r.failed
    /\ next_check' = following
    /\ UNCHANGED <<pc, exit_code>>

\* passed, failed = _run_all_import_checks()
ImportChecks ==
    /\ script = "verifier" /\ pc = "checks" /\ next_check = 1
    /\ LET r == _run_all_import_checks(modules)
       IN  IF r.raised
           THEN /\ printed' = printed \o r.out
                /\ Crash
                /\ UNCHANGED <<next_check, checks_passed, checks_failed>>
           ELSE Count(r, 6)
    /\ UNCHANGED <<env, run, history, checker_vars>>

\* passed, failed = _check_mainwindow_inheritance()
InheritanceCheck ==
    /\ script = "verifier" /\ pc = "checks" /\ next_check = 6
    /\ Count(_check_mainwindow_inheritance(modules, mainwindow), 7)
    /\ UNCHANGED <<env, run, history, checker_vars>>

\* passed, failed = _check_method_exists()
MethodCheck ==
    /\ script = "verifier" /\ pc = "checks" /\ next_check = 7
    /\ Count(_check_method_exists(modules, mainwindow), 8)
    /\ UNCHANGED <<env, run, history, checker_vars>>

\* passed, failed = _check_file_content(...), checks 8, 9 and 10
FileContentCheck ==
    /\ script = "verifier" /\ pc = "checks"
    /\ \E k \in 1..Len(file_checks) :
          /\ next_check = file_checks[k].check_num
          /\ Count(_check_file_content(srcfiles[k], file_checks[k].search_str,
                                       file_checks[k].check_num),
                   next_check + 1)
    /\ UNCHANGED <<env, run, history, checker_vars>>

\* the summary of check_integration and sys.exit(exit_code)
Summary ==
    /\ script = "verifier" /\ pc = "checks"
    /\ next_check = file_checks[Len(file_checks)].check_num + 1
    /\ exit_code' = integration_result(checks_failed)
    /\ pc' = "done"
    /\ UNCHANGED <<env, run, history, checker_vars, verifier_vars>>

\* what a finished run leaves for its user: the counts of its summary and
\* the exit code
Outcome ==
    IF script = "verifier"
    THEN [ended |-> pc, passed |-> checks_passed, warnings |-> 0,
          errors |-> checks_failed, exit_code |-> exit_code]
    ELSE LET s == report_summary([issues |-> issues, passed |-> passed])
         IN  [ended |-> pc, passed |-> s.passed, warnings |-> s.warnings,
              errors |-> s.errors, exit_code |-> exit_code]

\* the script is started again, the files on disk being what they were
Rerun ==
    /\ script \in {"compliance", "verifier"}
    /\ pc \in {"done", "crashed"}
    /\ run < NumRuns
    /\ history' = Append(history, Outcome)
    /\ run' = run + 1
    /\ pc' = "start"
    /\ exit_code' = -1
    /\ printed' = <<>>
    /\ UNCHANGED <<env, checker_vars, next_check, checks_passed, checks_failed>>

Next ==
    \/ Construct
    \/ FileNotFound
    \/ CheckFile
    \/ ReadTextRaises
    \/ ParseRaises
    \/ Report
    \/ Begin
    \/ ImportChecks
    \/ InheritanceCheck
    \/ MethodCheck
    \/ FileContentCheck
    \/ Summary
    \/ Rerun

Spec == Init /\ [][Next]_vars

-----------------------------------------------------------------------------
(* Single checks on bounded contents.  A content is the concatenation of a  *)
(* bounded sequence of lexemes; the check under study is applied to it by a *)
(* fresh checker.                                                           *)

BoundedSeq(S, n) == UNION { [1..m -> S] : m \in 0..n }

unit_path == "unit.py"

InitUnit(alphabet, n) ==
    /\ script = "unit"
    /\ tokens \in BoundedSeq(alphabet, n)
    /\ files = << TextFile(Flatten(tokens), Parsed(<<>>)) >>
    /\ modules = NoModules
    /\ mainwindow = NoMainWindow
    /\ srcfiles = NoFiles
    /\ InitCommon

\* the check has run on files[1] and left self
Checked(self) ==
    /\ issues' = self.issues
    /\ passed' = self.passed
    /\ pc' = "checked"
    /\ UNCHANGED <<env, run, history, idx, verifier_vars, exit_code>>

MaxExceptTokens == 4

ExceptAlphabet == { s_except, <<":">>, <<" ">>, <<"\n">>, <<"E">>, <<"x">> }

InitBareExcept == InitUnit(ExceptAlphabet, MaxExceptTokens)

ApplyBareExcept ==
    /\ script = "unit" /\ pc = "start"
    /\ Checked(_check_no_bare_except(AGENTSCompliance_init, unit_path, files[1].text))

SpecBareExcept == InitBareExcept /\ [][ApplyBareExcept]_vars

MaxTypingTokens == 4

TypingAlphabet == { s_from_typing_import \o <<" ">>, s_List, s_Optional, s_Union,
                    <<",">>, <<" ">>, <<"\n">>, <<"x">> }

InitTyping == InitUnit(TypingAlphabet, MaxTypingTokens)

ApplyDeprecatedTyping ==
    /\ script = "unit" /\ pc = "start"
    /\ Checked(_check_no_deprecated_typing(AGENTSCompliance_init, unit_path, files[1].text))

SpecTyping == InitTyping /\ [][ApplyDeprecatedTyping]_vars

MaxDocBlocks == 7

doc_plain == s_triple_quote \o <<"a">> \o s_triple_quote \o <<"\n">>
doc_quoted == s_triple_quote \o <<"a", " ", "\"", "b", "\"", " ", "c">> \o s_triple_quote \o <<"\n">>
code_line == <<"x", " ", "=", " ", "1", "\n">>

DocAlphabet == { doc_plain, doc_quoted, code_line }

InitDocstrings == InitUnit(DocAlphabet, MaxDocBlocks)

ApplyDocstrings ==
    /\ script = "unit" /\ pc = "start"
    /\ Checked(_check_docstrings(AGENTSCompliance_init, unit_path, files[1].text))

SpecDocstrings == InitDocstrings /\ [][ApplyDocstrings]_vars

-----------------------------------------------------------------------------
(* Properties.                                                              *)

UnitChecked == script = "unit" /\ pc = "checked"

OneRecord(seq, text) == Len(seq) = 1 /\ seq[1].file = unit_path /\ seq[1].msg[1] = text

bare_except_literal == s_except \o <<":">>

\* among the lexemes: an except followed, after whitespace only, by a colon
TokenBareExcept(toks) ==
    \E i \in 1..Len(toks) :
        /\ toks[i] = s_except
        /\ \E j \in (i + 1)..Len(toks) :
              /\ toks[j] = <<":">>
              /\ \A k \in (i + 1)..(j - 1) : toks[k] \in { <<" ">>, <<"\n">> }

BareExceptError == OneRecord(issues, "Bare except found") /\ issues[1].sev = 2 /\ passed = <<>>

\* C4: a content that contains `except:` (or except, whitespace, colon) gets
\* exactly one severity-2 issue and no pass record from _check_no_bare_except,
\* however many bare excepts it has; a content without one gets exactly one
\* pass record and no issue.
C4_BareExceptOneError ==
    UnitChecked =>
        /\ Contains(files[1].text, bare_except_literal) => BareExceptError
        /\ TokenBareExcept(tokens) => BareExceptError
        /\ ~TokenBareExcept(tokens) =>
               OneRecord(passed, "No bare except clauses") /\ issues = <<>>

\* a checked content with two bare excepts
C4_Witness ==
    /\ UnitChecked
    /\ Cardinality({ i \in 1..Len(files[1].text) :
                       StartsWithAt(files[1].text, i, bare_except_literal) }) >= 2
    /\ BareExceptError

typing_optional_literal == s_from_typing_import \o <<" ">> \o s_Optional

\* the content holds the statement `from typing import Optional`, Optional
\* being the whole imported name
ImportsOptional(text) ==
    \E i \in 1..Len(text) :
        /\ StartsWithAt(text, i, typing_optional_literal)
        /\ ~IsWordAt(text, i + Len(typing_optional_literal))

\* the first entry of the fixed order List, Dict, Set, Tuple, Optional, Union
\* whose pattern matches, 0 when none does
FirstDeprecated(text) ==
    IF \E k \in 1..Len(deprecated) : re_search_deprecated(text, deprecated[k].pattern)
    THEN CHOOSE k \in 1..Len(deprecated) :
             /\ re_search_deprecated(text, deprecated[k].pattern)
             /\ \A m \in 1..(k - 1) : ~re_search_deprecated(text, deprecated[m].pattern)
    ELSE 0

\* C5 as stated: every content that contains the characters
\* `from typing import Optional` gets exactly one severity-2 issue and no pass
\* record from _check_no_deprecated_typing.
C5_AnyContentWithLiteral ==
    (UnitChecked /\ Contains(files[1].text, typing_optional_literal)) =>
        /\ passed = <<>>
        /\ OneRecord(issues, "Deprecated")
        /\ issues[1].sev = 2

\* C5: a content that contains `from typing import Optional`, with Optional
\* not running on into a longer word, gets exactly one severity-2 issue and no
\* pass record from _check_no_deprecated_typing, also when several deprecated
\* names are imported; the issue names the first matching name of the fixed
\* order (Optional itself when no List is there).
C5_DeprecatedTypingOneError ==
    (UnitChecked /\ ImportsOptional(files[1].text)) =>
        /\ passed = <<>>
        /\ OneRecord(issues, "Deprecated")
        /\ issues[1].sev = 2
        /\ FirstDeprecated(files[1].text) \in 1..5
        /\ issues[1].msg[2] = deprecated[FirstDeprecated(files[1].text)].name
        /\ (\A i \in 1..Len(tokens) : tokens[i] # s_List) => issues[1].msg[2] = "Optional"

\* a checked content that imports Optional and matches the List pattern too
C5_Witness ==
    /\ UnitChecked
    /\ ImportsOptional(files[1].text)
    /\ re_search_deprecated(files[1].text, s_List)
    /\ Len(issues) = 1
    /\ issues[1].msg[2] = "List"

\* the triple-quoted blocks a content was built from
NumDocBlocks(toks) == Cardinality({ i \in 1..Len(toks) : toks[i] \in {doc_plain, doc_quoted} })

\* C6: a content with more than five triple-quoted docstring blocks passes
\* _check_docstrings, whatever the blocks hold (a double quote included); one
\* with five or fewer gets one severity-1 warning and no error.
C6_DocstringCount ==
    UnitChecked =>
        IF NumDocBlocks(tokens) > DocstringThreshold
        THEN OneRecord(passed, "Comprehensive docstrings") /\ issues = <<>>
        ELSE OneRecord(issues, "Few docstrings found") /\ issues[1].sev = 1 /\ passed = <<>>

Terminated == pc \in {"done", "crashed"}

\* C1: report() returns 0 if and only if the accumulated issues hold no
\* severity-2 record, and 1 otherwise; warnings never change the exit code.
C1_ExitCodeIffNoError ==
    (script = "compliance" /\ pc = "done") =>
        /\ exit_code \in {0, 1}
        /\ exit_code = 0 <=> (\A i \in 1..Len(issues) : issues[i].sev # 2)

\* a finished run that gathered warnings and still exits with 0
C1_Witness ==
    /\ script = "compliance" /\ pc = "done"
    /\ \E i \in 1..Len(issues) : issues[i].sev = 1
    /\ exit_code = 0

\* C2: when check_integration returns, ten checks have been counted (1..5 the
\* imports, 6 inheritance, 7 attribute, 8..10 file substrings) whatever their
\* outcomes, checks_passed + checks_failed = 10, and the exit code is 0 if and
\* only if all ten passed.
C2_TenChecksCounted ==
    (script = "verifier" /\ pc = "done") =>
        /\ checks_passed + checks_failed = 10
        /\ Len(printed) = 10
        /\ \A k \in 1..Len(printed) : printed[k].check = k
        /\ checks_passed = Cardinality({ k \in 1..Len(printed) : printed[k].ok })
        /\ exit_code = (IF checks_failed = 0 THEN 0 ELSE 1)
        /\ exit_code = 0 <=> (\A k \in 1..Len(printed) : printed[k].ok)

\* a run that returned with passed and failed checks
C2_Witness ==
    /\ script = "verifier" /\ pc = "done"
    /\ checks_passed > 0 /\ checks_failed > 0
    /\ exit_code = 1

\* C3: no exception raised by an import or by a file read gets past the
\* top-level script: neither script ever ends in a traceback.
C3_NoExceptionPropagates == pc # "crashed"

\* what the probe of check k finds, by the environment alone
ProbePasses(k) ==
    CASE k = 1 -> modules[mixin_module] = "ok"
      [] k \in 2..4 -> modules[membership_module] = "ok"
      [] k = 5 -> modules[dialog_module] = "ok"
      [] k = 6 -> /\ modules[main_window_module] = "ok"
                  /\ modules[mixin_module] = "ok"
                  /\ mainwindow.is_subclass
      [] k = 7 -> modules[main_window_module] = "ok" /\ mainwindow.has_method
      [] OTHER -> /\ srcfiles[k - 7].state = "ok"
                  /\ Contains(srcfiles[k - 7].text, file_checks[k - 7].search_str)

\* C7: the outcome of every check is that of its own probe, whatever the
\* other checks found, and once a check has failed every later check is still
\* executed and counted: a run that ended with a failed check counted all ten.
C7_ChecksIndependent ==
    script = "verifier" =>
        /\ \A i \in 1..Len(printed) : printed[i].ok = ProbePasses(printed[i].check)
        /\ (Terminated /\ \E i \in 1..Len(printed) : ~printed[i].ok) =>
               /\ Len(printed) = 10
               /\ checks_passed + checks_failed = 10

RecordsOf(f) ==
    Cardinality({ i \in 1..Len(issues) : issues[i].file = files_to_check[f] })
    + Cardinality({ i \in 1..Len(passed) : passed[i].file = files_to_check[f] })

\* the files check_file has returned for
Processed == { f \in 1..Len(files) : f < idx /\ files[f].state = "ok" }

\* the check of check_file (1..10) that writes a message
CheckOf(text) ==
    CASE text \in {"Deprecated", "No deprecated typing imports"} -> 1
      [] text = "Uses modern union types" -> 2
      [] text \in {"Bare except found", "No bare except clauses"} -> 3
      [] text \in {"Syntax error", "Most functions typed", "All functions have type hints"} -> 4
      [] text \in {"Classes in PascalCase", "Functions in snake_case"} -> 5
      [] text \in {"Comprehensive docstrings", "Few docstrings found"} -> 6
      [] text \in {"lines exceed 120 characters", "All lines <= 120 characters"} -> 7
      [] text \in {"Imports properly ordered (isort)", "Import order may not match isort",
                   "Import order OK"} -> 8
      [] text \in {"Uses threading.Lock for thread-safety", "Uses context managers for locks",
                   "Uses ThreadPoolExecutor for concurrency"} -> 9
      [] text = "Uses project logger" -> 10
      [] OTHER -> 0

\* the records check c left for file f
RecordsOfCheck(f, c) ==
    Cardinality({ i \in 1..Len(issues) :
                    issues[i].file = files_to_check[f] /\ CheckOf(issues[i].msg[1]) = c })
    + Cardinality({ i \in 1..Len(passed) :
                    passed[i].file = files_to_check[f] /\ CheckOf(passed[i].msg[1]) = c })

InMainRun == script = "compliance" /\ pc \in {"loop", "done"}

ExitCodeOfExisting ==
    IF \E f \in 1..Len(files) :
          /\ files[f].state = "ok"
          /\ errors_of(check_file([issues |-> <<>>, passed |-> <<>>], files_to_check[f], files[f])) # <<>>
    THEN 1 ELSE 0

\* C10: a listed file that does not exist adds no pass and no issue record and
\* does not change the exit code; with all three files missing the run
\* records nothing and exits with 0.
C10_MissingFilesSkipped ==
    InMainRun =>
        /\ \A f \in 1..Len(files) : files[f].state = "missing" => RecordsOf(f) = 0
        /\ pc = "done" => exit_code = ExitCodeOfExisting
        /\ (pc = "done" /\ \A f \in 1..Len(files) : files[f].state = "missing") =>
               issues = <<>> /\ passed = <<>> /\ exit_code = 0

\* the run over three missing files has ended
C10_Witness ==
    /\ script = "compliance" /\ pc = "done"
    /\ \A f \in 1..Len(files) : files[f].state = "missing"
    /\ exit_code = 0

-----------------------------------------------------------------------------
(* The main run of the compliance checker over one file with a bounded      *)
(* syntax tree, at any place of files_to_check, beside files that are       *)
(* missing or empty.                                                        *)

MaxFunctions == 2

name_foo == <<"f", "o", "o">>
name_private == <<"_", "f", "o", "o">>
name_test == <<"t", "e", "s", "t", "_", "f", "o", "o">>

\* the kinds of function definition _check_type_hints tells apart
FunctionKinds ==
    { FunctionDef(name_foo, TRUE, <<>>),
      FunctionDef(name_foo, FALSE, <<>>),
      FunctionDef(name_private, FALSE, <<>>),
      FunctionDef(name_test, FALSE, <<>>),
      FunctionDef(name_foo, FALSE, << [is_Name |-> TRUE, id |-> s_property] >>),
      FunctionDef(name_foo, FALSE, << [is_Name |-> FALSE, id |-> s_property] >>) }

text_functions ==
    Flatten(<<
        <<"c", "l", "a", "s", "s", " ", "F", "o", "o", ":", "\n">>,
        <<" ", "d", "e", "f", " ", "f", "o", "o", "(", "s", "e", "l", "f", ")", ":", "\n">>,
        <<" ", " ", "l", "o", "g", "g", "e", "r", "\n">>,
        <<" ", " ", "t", "h", "r", "e", "a", "d", "i", "n", "g", ".", "L", "o", "c", "k", "\n">>,
        <<"i", "m", "p", "o", "r", "t", " ", "x", "\n">>
    >>)

TypeHintFiles ==
    { TextFile(text, ast) :
        text \in {text_functions, text_bare_except},
        ast \in {SyntaxError, RecursionError}
                \cup { Parsed(body) : body \in BoundedSeq(FunctionKinds, MaxFunctions) } }
    \cup {Unreadable}

InitTypeHints ==
    /\ script = "compliance"
    /\ \E p \in 1..Len(files_to_check) :
          files \in { g \in [1..Len(files_to_check) ->
                               TypeHintFiles \cup {Missing, TextFile(<<>>, Parsed(<<>>))}] :
                        /\ g[p] \in TypeHintFiles
                        /\ \A i \in 1..Len(files_to_check) :
                              i # p => g[i] \notin TypeHintFiles }
    /\ tokens = <<>>
    /\ modules = NoModules
    /\ mainwindow = NoMainWindow
    /\ srcfiles = NoFiles
    /\ InitCommon

NextMainRun ==
    \/ Construct
    \/ FileNotFound
    \/ CheckFile
    \/ ParseRaises
    \/ ReadTextRaises
    \/ Report

SpecTypeHints == InitTypeHints /\ [][NextMainRun]_vars

\* the issue and pass records with a given message left for file f
IssuesWith(f, text) ==
    Cardinality({ i \in 1..Len(issues) :
                    issues[i].file = files_to_check[f] /\ issues[i].msg[1] = text })

PassesOfCheck(f, c) ==
    Cardinality({ i \in 1..Len(passed) :
                    passed[i].file = files_to_check[f] /\ CheckOf(passed[i].msg[1]) = c })

\* what checks 5 to 10 leave for file f, by its text alone
LaterChecksRan(f) ==
    LET text == files[f].text
    IN  /\ RecordsOfCheck(f, 5) =
              (IF Contains(text, s_class) THEN 1 ELSE 0) + (IF Contains(text, s_def) THEN 1 ELSE 0)
        /\ RecordsOfCheck(f, 6) = 1
        /\ RecordsOfCheck(f, 7) = 1
        /\ RecordsOfCheck(f, 8) = (IF Contains(text, s_import_) THEN 1 ELSE 0)
        /\ RecordsOfCheck(f, 9) = (IF Contains(text, s_threading_Lock) THEN 1 ELSE 0)
        /\ RecordsOfCheck(f, 10) = (IF Contains(text, s_logger) THEN 1 ELSE 0)

\* the files the run has handed to check_file, the one it died in included
Reached ==
    { f \in 1..Len(files) :
        /\ files[f].state # "missing"
        /\ f < idx \/ (f = idx /\ pc = "crashed") }

\* a file whose bytes are no UTF-8 text or whose text ast.parse gives no tree
\* for
NotParseable(f) == files[f].state = "unreadable" \/ ~files[f].ast.ok

\* C11: once the run has ended, every file given to check_file whose content
\* is not parseable Python has exactly one severity-2 "Syntax error" issue and
\* no pass record from _check_type_hints, has the records of checks 5 to 10,
\* and the exit code is 1; every file whose content parses has exactly one
\* pass record and no issue from _check_type_hints, with or without functions
\* that lack a return annotation.
C11_TypeHintsOutcome ==
    (script = "compliance" /\ Terminated) =>
        \A f \in Reached :
            IF NotParseable(f)
            THEN /\ IssuesWith(f, "Syntax error") = 1
                 /\ \A i \in 1..Len(issues) :
                       (issues[i].file = files_to_check[f] /\ issues[i].msg[1] = "Syntax error")
                           => issues[i].sev = 2
                 /\ RecordsOfCheck(f, 4) = 1
                 /\ PassesOfCheck(f, 4) = 0
                 /\ LaterChecksRan(f)
                 /\ exit_code = 1
            ELSE /\ PassesOfCheck(f, 4) = 1
                 /\ RecordsOfCheck(f, 4) = 1

====
